---- MODULE Spec2Model ----
(***************************************************************************)
(* Model of gallery_xlsx_export.py: one export run of main() over an       *)
(* images directory, the worksheet calls it makes, and the pure helpers    *)
(* (filename parser, timecode formatter, unit conversions).                *)
(*                                                                         *)
(* Text is modelled as a tuple of one-character strings.  Floating point   *)
(* values are modelled exactly: scale and fps as <<numerator, denominator>>*)
(* with a positive denominator, row heights in quarter-points, column      *)
(* widths in sevenths of a width unit.                                     *)
(***************************************************************************)
EXTENDS Integers, Sequences, FiniteSets, TLC

\* an optional value: None is the empty tuple, a present value v is <<v>>
None == <<>>
Some(v) == <<v>>

----------------------------------------------------------------------------
(* Characters                                                              *)

Digits == {"0", "1", "2", "3", "4", "5", "6", "7", "8", "9"}

DigitVal(c) ==
    CASE c = "0" -> 0 [] c = "1" -> 1 [] c = "2" -> 2 [] c = "3" -> 3
      [] c = "4" -> 4 [] c = "5" -> 5 [] c = "6" -> 6 [] c = "7" -> 7
      [] c = "8" -> 8 [] c = "9" -> 9

DigitChar(n) ==
    CASE n = 0 -> "0" [] n = 1 -> "1" [] n = 2 -> "2" [] n = 3 -> "3"
      [] n = 4 -> "4" [] n = 5 -> "5" [] n = 6 -> "6" [] n = 7 -> "7"
      [] n = 8 -> "8" [] n = 9 -> "9"

\* str.lower() on the characters that occur in the modelled names
LowerChar(c) ==
    CASE c = "A" -> "a" [] c = "B" -> "b" [] c = "E" -> "e" [] c = "F" -> "f"
      [] c = "G" -> "g" [] c = "J" -> "j" [] c = "N" -> "n" [] c = "P" -> "p"
      [] c = "T" -> "t" [] c = "X" -> "x"
      [] OTHER -> c

\* code point of a character (the order sorted() uses on str)
Code(c) ==
    CASE c = "\n" -> 10 [] c = "." -> 46 [] c = "/" -> 47 [] c = ":" -> 58
      [] c \in Digits -> 48 + DigitVal(c)
      [] c = "A" -> 65 [] c = "B" -> 66 [] c = "E" -> 69 [] c = "F" -> 70
      [] c = "G" -> 71 [] c = "J" -> 74 [] c = "N" -> 78 [] c = "P" -> 80
      [] c = "T" -> 84 [] c = "X" -> 88 [] c = "_" -> 95
      [] c = "a" -> 97 [] c = "b" -> 98 [] c = "c" -> 99 [] c = "d" -> 100
      [] c = "e" -> 101 [] c = "f" -> 102 [] c = "g" -> 103 [] c = "i" -> 105
      [] c = "j" -> 106 [] c = "n" -> 110 [] c = "p" -> 112 [] c = "t" -> 116
      [] c = "x" -> 120

Lower(s) == [k \in 1..Len(s) |-> LowerChar(s[k])]

EndsWith(s, suf) ==
    /\ Len(s) >= Len(suf)
    /\ SubSeq(s, Len(s) - Len(suf) + 1, Len(s)) = suf

\* str < str : lexicographic on code points
RECURSIVE StrLess(_, _)
StrLess(a, b) ==
    IF b = <<>> THEN FALSE
    ELSE IF a = <<>> THEN TRUE
    ELSE IF Code(Head(a)) # Code(Head(b)) THEN Code(Head(a)) < Code(Head(b))
    ELSE StrLess(Tail(a), Tail(b))

Max(a, b) == IF a >= b THEN a ELSE b

----------------------------------------------------------------------------
(* Numbers                                                                 *)

\* int(round(x)) for x = p/q >= 0, q > 0: Python rounds halves to even
RoundHalfEven(p, q) ==
    LET fl == p \div q
        rem == p % q
    IN  IF 2 * rem < q THEN fl
        ELSE IF 2 * rem > q THEN fl + 1
        ELSE IF fl % 2 = 0 THEN fl ELSE fl + 1

\* int(round(n * scale)), scale = <<num, den>>
ScaleRound(n, sc) == RoundHalfEven(n * sc[1], sc[2])

\* int(x / 2): true division followed by truncation toward zero
IntHalf(x) == IF x >= 0 THEN x \div 2 ELSE -((-x) \div 2)

RECURSIVE DigitsToInt(_)
DigitsToInt(ds) ==
    IF ds = <<>> THEN 0
    ELSE 10 * DigitsToInt(SubSeq(ds, 1, Len(ds) - 1)) + DigitVal(ds[Len(ds)])

RECURSIVE IntToDigits(_)
IntToDigits(n) ==
    IF n < 10 THEN <<DigitChar(n)>>
    ELSE IntToDigits(n \div 10) \o <<DigitChar(n % 10)>>

\* format spec 02d for n >= 0
Fmt02d(n) == IF n < 10 THEN <<"0">> \o IntToDigits(n) ELSE IntToDigits(n)

----------------------------------------------------------------------------
(* list_images_sorted                                                      *)

Extensions ==
    { <<".", "j", "p", "g">>, <<".", "j", "p", "e", "g">>, <<".", "p", "n", "g">> }

RECURSIVE Sorted(_)
Sorted(S) ==
    IF S = {} THEN <<>>
    ELSE LET m == CHOOSE x \in S : \A y \in S \ {x} : StrLess(x, y)
         IN  <<m>> \o Sorted(S \ {m})

IsImageName(name) == \E ext \in Extensions : EndsWith(Lower(name), ext)

\* list_images_sorted with the extension test applied to the name as spelled
list_images_sorted_CaseSensitive(exists, listing) ==
    LET Matches(name) == \E ext \in Extensions : EndsWith(name, ext)
    IN  IF ~exists THEN <<>> ELSE SelectSeq(Sorted(listing), Matches)

\* exists = FALSE is the FileNotFoundError branch
list_images_sorted(exists, listing) ==
    IF ~exists THEN <<>>
    ELSE SelectSeq(Sorted(listing), IsImageName)

----------------------------------------------------------------------------
(* parse_frame_from_filename                                               *)

FrameDigits == 8

AllDigits(s) == \A k \in 1..Len(s) : s[k] \in Digits

\* re.match(r"^f(\d{8})\.(?:jpe?g|png)$", name, re.IGNORECASE);
\* "$" also matches just before one trailing newline
StrictMatch(name) ==
    \E ext \in Extensions :
        LET L == 1 + FrameDigits + Len(ext)
        IN  /\ \/ Len(name) = L
               \/ Len(name) = L + 1 /\ name[L + 1] = "\n"
            /\ LowerChar(name[1]) = "f"
            /\ AllDigits(SubSeq(name, 2, 1 + FrameDigits))
            /\ Lower(SubSeq(name, 2 + FrameDigits, L)) = ext

\* start positions at which re.search(r"(\d{8})", name) can match
DigitWindows(name) ==
    { i \in 1..(Len(name) - FrameDigits + 1) :
        AllDigits(SubSeq(name, i, i + FrameDigits - 1)) }

MinOf(S) == CHOOSE x \in S : \A y \in S : x <= y

parse_frame_from_filename(name) ==
    IF StrictMatch(name)
    THEN Some(DigitsToInt(SubSeq(name, 2, 1 + FrameDigits)))
    ELSE IF DigitWindows(name) # {}
    THEN LET k == MinOf(DigitWindows(name))
         IN  Some(DigitsToInt(SubSeq(name, k, k + FrameDigits - 1)))
    ELSE None

----------------------------------------------------------------------------
(* seconds_to_hhmmss_floor and the timecode of a row                       *)

Colon == <<":">>

\* seconds_to_hhmmss_floor with the hours wrapped at 24
seconds_to_hhmmss_floor_Wrapped(seconds) ==
    IF seconds[1] = 0 \/ seconds[1] < 0
    THEN <<"0", "0", ":", "0", "0", ":", "0", "0">>
    ELSE LET s == seconds[1] \div seconds[2]
             h == (s \div 3600) % 24
             m == (s % 3600) \div 60
             r == s % 60
         IN  Fmt02d(h) \o Colon \o Fmt02d(m) \o Colon \o Fmt02d(r)

\* seconds = <<p, q>>, q > 0
seconds_to_hhmmss_floor(seconds) ==
    IF seconds[1] = 0 \/ seconds[1] < 0
    THEN <<"0", "0", ":", "0", "0", ":", "0", "0">>
    ELSE LET s == seconds[1] \div seconds[2]
             h == s \div 3600
             m == (s % 3600) \div 60
             r == s % 60
         IN  Fmt02d(h) \o Colon \o Fmt02d(m) \o Colon \o Fmt02d(r)

\* fps = float(args.fps or 0.0)
FpsArg(f) == IF f[1] = 0 THEN <<0, 1>> ELSE f

\* scale = float(args.scale or 0.25)
ScaleArg(sc) == IF sc[1] = 0 THEN <<1, 4>> ELSE sc

\* tc of one row; frame is optional, frame / fps is (frame * den) / num
Timecode(frame, fps) ==
    IF frame # None /\ fps[1] > 0
    THEN seconds_to_hhmmss_floor(<<frame[1] * fps[2], fps[1]>>)
    ELSE <<>>

----------------------------------------------------------------------------
(* Unit conversions                                                        *)

\* max(1.0, (pixels - 5) / 7.0), in sevenths of a width unit
pixels_to_col_width(pixels) == Max(7, pixels - 5)

\* pixels_to_row_points with the points truncated to whole points
pixels_to_row_points_WholePoints(pixels) == Max(4, 4 * ((3 * pixels) \div 4))

\* max(1.0, (3.0 / 4.0) * pixels), in quarter-points
pixels_to_row_points(pixels) == Max(4, 3 * pixels)

----------------------------------------------------------------------------
(* The environment of one run                                              *)

MaxFiles == 2

NameB == <<"B", ".", "J", "P", "G">>
NameA == <<"a", ".", "p", "n", "g">>
NameF == <<"f", "0", "0", "0", "0", "0", "7", "5", "0", ".", "j", "p", "e", "g">>
NameC == <<"c", ".", "t", "x", "t">>

\* names a directory entry may have
Pool == {NameB, NameA, NameF, NameC}

\* what a file holds: pixel size, and whether the codec can decode it
Contents ==
    { [w |-> 8, h |-> 4, ok |-> TRUE], [w |-> 2, h |-> 1, ok |-> TRUE],
      [w |-> 3, h |-> 2, ok |-> FALSE] }

NotAnImage == [w |-> 1, h |-> 1, ok |-> FALSE]

\* --scale and --fps as given: scale and fps never meet in the code, so the
\* two are varied together.  A scale of 0 stands for the default.
ScaleAndFps ==
    { [scale |-> <<0, 1>>, fps |-> <<25, 1>>], [scale |-> <<1, 2>>, fps |-> <<0, 1>>] }
Pads == { <<0, 0>>, <<1, 2>>, <<-1, -1>> }

images_dir == <<"i">>
tmp_path == <<"t">>

\* os.path.join
Join(dir, name) == dir \o <<"/">> \o name

VARIABLES
    env,          \* [dirExists, pil]: images dir present, PIL_AVAILABLE
    listing,      \* os.listdir(images_dir) as a set of names
    disk,         \* name -> content currently in the file
    args,         \* parsed arguments
    pc,           \* position in main()
    imgs,         \* list_images_sorted result
    use_physical,
    tmpdir,       \* None or Some(path)
    processed,    \* list of [path, w, h]
    colA_pixels,  \* None until computed
    i,            \* loop index (1-based)
    wb,           \* "none", "open", "closed"
    log,          \* worksheet calls that took effect, in call order
    exit,         \* None while running, Some(status) afterwards
    fs,           \* [outDir, outFile, scratch]: what the run made on disk
    hist,         \* bookkeeping about the run, see HistInit
    fin,          \* input of the pure function under study
    fout          \* its output

vars == <<env, listing, disk, args, pc, imgs, use_physical, tmpdir, processed,
          colA_pixels, i, wb, log, exit, fs, hist, fin, fout>>

runVars == <<env, listing, disk, args, pc, imgs, use_physical, tmpdir,
             processed, colA_pixels, i, wb, log, exit, fs, hist>>

HistInit(d) ==
    [ disk0 |-> d,          \* what the files held when the run started
      failed |-> {},        \* rows whose image failed to decode, resize or embed
      overwritten |-> {},   \* names rewritten by another process during the run
      interrupted |-> FALSE,\* an exception nobody catches was raised
      scratchMade |-> FALSE,\* mkdtemp was called
      geom |-> <<>> ]       \* per row: the w, h, row_pixels the geometry used

Directories ==
    { S \in SUBSET Pool : Cardinality(S) <= MaxFiles }

DiskOf(S) ==
    { d \in [S -> Contents \cup {NotAnImage}] :
        \A n \in S : (d[n] = NotAnImage) <=> ~IsImageName(n) }

RunInit ==
    /\ env \in [dirExists : BOOLEAN, pil : BOOLEAN]
    /\ listing \in (IF env.dirExists THEN Directories ELSE {{}})
    /\ disk \in DiskOf(listing)
    /\ \E rs \in {"physical", "scale-only"}, sf \in ScaleAndFps,
          pd \in Pads, c \in BOOLEAN :
          args = [resize |-> rs, scale |-> ScaleArg(sf.scale), fps |-> FpsArg(sf.fps),
                  pad_x |-> pd[1], pad_y |-> pd[2], do_center |-> c]
    /\ pc = "start"
    /\ imgs = <<>>
    /\ use_physical = FALSE
    /\ tmpdir = None
    /\ processed = <<>>
    /\ colA_pixels = None
    /\ i = 0
    /\ wb = "none"
    /\ log = <<>>
    /\ exit = None
    /\ fs = [outDir |-> FALSE, outFile |-> FALSE, scratch |-> "absent"]
    /\ hist = HistInit(disk)

Init ==
    /\ RunInit
    /\ fin = None
    /\ fout = None

----------------------------------------------------------------------------
(* Collaborators as main() sees them                                       *)

\* get_image_size: (width, height), or None for (None, None).  Without
\* Pillow the name Image is unbound and the NameError is swallowed too.
get_image_size(name) ==
    IF env.pil /\ disk[name].ok
    THEN Some([w |-> disk[name].w, h |-> disk[name].h])
    ELSE None

\* "w or 0" / "h or 0" on a get_image_size result
WidthOr0(sz) == IF sz = None THEN 0 ELSE sz[1].w
HeightOr0(sz) == IF sz = None THEN 0 ELSE sz[1].h

\* physical_resize_image when nothing raises: the (nw, nh) it returns
physical_resize_image(content, sc) ==
    [w |-> Max(1, ScaleRound(content.w, sc)),
     h |-> Max(1, ScaleRound(content.h, sc))]

HeaderImage == <<"I", "m", "a", "g", "e">>
HeaderTimecode == <<"T", "i", "m", "e", "c", "o", "d", "e">>

NoOpts == [x_offset |-> None, y_offset |-> None, x_scale |-> None, y_scale |-> None]

\* one worksheet call; fields a call does not take are None / 0
Call(op, row, col, text, size, fmt, opts) ==
    [op |-> op, row |-> row, col |-> col, text |-> text, size |-> size,
     fmt |-> fmt, opts |-> opts]

WsWrite(row, col, text, fmt) == Call("write", row, col, text, 0, fmt, NoOpts)
WsSetRow(row, points4, fmt) == Call("set_row", row, 0, None, points4, fmt, NoOpts)
WsSetColumn(col, width7) == Call("set_column", 0, col, None, width7, "None", NoOpts)
WsFreeze(row, col) == Call("freeze_panes", row, col, None, 0, "None", NoOpts)
WsInsertImage(row, col, path, opts) == Call("insert_image", row, col, path, 0, "None", opts)

RowFmt == IF args.do_center THEN "text_fmt" ELSE "None"

RECURSIVE MaxOver(_, _)
\* max(... , default=0) over field f of the processed list
MaxOver(recs, f) ==
    IF recs = <<>> THEN 0
    ELSE IF Len(recs) = 1 THEN recs[1][f]
    ELSE Max(recs[1][f], MaxOver(Tail(recs), f))

----------------------------------------------------------------------------
(* main()                                                                  *)

InTry == {"pre", "workbook", "rows", "close"}

\* main() without the early exit on an empty image list
ListImages_NoEarlyExit ==
    /\ pc = "start"
    /\ imgs' = list_images_sorted(env.dirExists, listing)
    /\ pc' = "makedirs"
    /\ UNCHANGED <<env, listing, disk, args, use_physical, tmpdir, processed,
                   colA_pixels, i, wb, log, exit, fs, hist, fin, fout>>

\* lines 130-133
ListImages ==
    /\ pc = "start"
    /\ imgs' = list_images_sorted(env.dirExists, listing)
    /\ IF imgs' = <<>>
       THEN pc' = "done" /\ exit' = Some(2)
       ELSE pc' = "makedirs" /\ exit' = exit
    /\ UNCHANGED <<env, listing, disk, args, use_physical, tmpdir, processed,
                   colA_pixels, i, wb, log, fs, hist, fin, fout>>

\* line 135
MakeDirs ==
    /\ pc = "makedirs"
    /\ fs' = [fs EXCEPT !.outDir = TRUE]
    /\ pc' = "prepare"
    /\ UNCHANGED <<env, listing, disk, args, imgs, use_physical, tmpdir,
                   processed, colA_pixels, i, wb, log, exit, hist, fin, fout>>

\* lines 137-148
PrepareTmp ==
    /\ pc = "prepare"
    /\ use_physical' = (args.resize = "physical" /\ env.pil)
    /\ IF use_physical'
       THEN /\ tmpdir' = Some(tmp_path)
            /\ fs' = [fs EXCEPT !.scratch = "present"]
            /\ hist' = [hist EXCEPT !.scratchMade = TRUE]
       ELSE UNCHANGED <<tmpdir, fs, hist>>
    /\ processed' = <<>>
    /\ i' = 1
    /\ pc' = "pre"
    /\ UNCHANGED <<env, listing, disk, args, imgs, colA_pixels, wb, log, exit,
                   fin, fout>>

\* lines 149-162, one iteration; saveOk = FALSE: the resized copy cannot be written
PreprocessOne(saveOk) ==
    LET name == imgs[i]
        src == Join(images_dir, name)
        resized == disk[name].ok /\ saveOk
        sz == get_image_size(name)
        rec == IF use_physical
               THEN IF resized
                    THEN LET n == physical_resize_image(disk[name], args.scale)
                         IN  [path |-> Join(tmpdir[1], name), w |-> n.w, h |-> n.h]
                    ELSE [path |-> src, w |-> WidthOr0(sz), h |-> HeightOr0(sz)]
               ELSE [path |-> src,
                     w |-> ScaleRound(WidthOr0(sz), args.scale),
                     h |-> ScaleRound(HeightOr0(sz), args.scale)]
        bad == IF use_physical THEN ~resized ELSE sz = None
    IN  /\ processed' = Append(processed, rec)
        /\ hist' = [hist EXCEPT !.failed = IF bad THEN @ \cup {i} ELSE @]
        /\ i' = i + 1
        /\ pc' = IF i = Len(imgs) THEN "workbook" ELSE "pre"

Preprocess ==
    /\ pc = "pre"
    /\ i <= Len(imgs)
    /\ \E saveOk \in BOOLEAN :
          /\ use_physical \/ saveOk
          /\ PreprocessOne(saveOk)
    /\ UNCHANGED <<env, listing, disk, args, imgs, use_physical, tmpdir,
                   colA_pixels, wb, log, exit, fs, fin, fout>>

\* Another process rewrites an image file between the run's two reads of it
\* (lines 158/161 and line 198).  All first reads precede all second reads, so
\* every such rewrite has the effect of one placed here, and several rewrites
\* of one file have the effect of the last.  Only line 198 reads a file again,
\* only when use_physical is false, and without Pillow the read fails whatever
\* the file holds.
Overwrite ==
    /\ pc = "workbook"
    /\ ~use_physical /\ env.pil
    /\ \E k \in 1..Len(imgs), c \in Contents :
          /\ c # disk[imgs[k]]
          /\ imgs[k] \notin hist.overwritten
          /\ disk' = [disk EXCEPT ![imgs[k]] = c]
          /\ hist' = [hist EXCEPT !.overwritten = @ \cup {imgs[k]}]
    /\ UNCHANGED <<env, listing, args, pc, imgs, use_physical, tmpdir, processed,
                   colA_pixels, i, wb, log, exit, fs, fin, fout>>

\* lines 164-187
OpenWorkbook ==
    /\ pc = "workbook"
    /\ LET max_w == MaxOver(processed, "w")
           colA == max_w + 2 * args.pad_x
       IN  /\ colA_pixels' = Some(colA)
           /\ log' = << WsSetColumn(0, pixels_to_col_width(colA)),
                        WsSetColumn(1, 16 * 7),
                        WsWrite(0, 0, HeaderImage, "header_fmt"),
                        WsWrite(0, 1, HeaderTimecode, "header_fmt"),
                        WsFreeze(1, 0) >>
    /\ wb' = "open"
    /\ i' = 1
    /\ pc' = "rows"
    /\ UNCHANGED <<env, listing, disk, args, imgs, use_physical, tmpdir,
                   processed, exit, fs, hist, fin, fout>>

\* the centering block without the max(0, ...) clamps
CenterOpts_Unclamped(w, h, row_pixels) ==
    IF args.do_center
    THEN [NoOpts EXCEPT !.x_offset = Some(IntHalf(colA_pixels[1] - w)),
                        !.y_offset = Some(IntHalf(row_pixels - h))]
    ELSE NoOpts

\* lines 222-227: insert_opts after the centering block
CenterOpts(w, h, row_pixels) ==
    IF args.do_center
    THEN [NoOpts EXCEPT !.x_offset = Some(Max(0, IntHalf(colA_pixels[1] - w))),
                        !.y_offset = Some(Max(0, IntHalf(row_pixels - h)))]
    ELSE NoOpts

\* lines 190-203: the w, h the row's geometry uses
RowSize(k) ==
    LET rec == processed[k]
        sz == get_image_size(imgs[k])
    IN  IF use_physical THEN [w |-> rec.w, h |-> rec.h]
        ELSE IF sz # None /\ sz[1].w > 0 /\ sz[1].h > 0
        THEN [w |-> ScaleRound(sz[1].w, args.scale),
              h |-> ScaleRound(sz[1].h, args.scale)]
        ELSE [w |-> rec.w, h |-> rec.h]

\* lines 229-239: the call that fills column A
InsertOrPlaceholder(row, img_path, orig_path, opts, embedOk) ==
    IF embedOk
    THEN WsInsertImage(row, 0, img_path,
             IF use_physical THEN opts
             ELSE [opts EXCEPT !.x_scale = Some(args.scale),
                               !.y_scale = Some(args.scale)])
    ELSE WsWrite(row, 0, orig_path, RowFmt)

\* one iteration without the try/except around insert_image: the exception
\* ends the run
RowOne_Uncaught(embedOk) ==
    LET name == imgs[i]
        sz == RowSize(i)
        tc == Timecode(parse_frame_from_filename(name), args.fps)
        row_pixels == sz.h + 2 * args.pad_y
        opts == CenterOpts(sz.w, sz.h, row_pixels)
        geom == Append(hist.geom, [w |-> sz.w, h |-> sz.h, row_pixels |-> row_pixels])
    IN  IF embedOk
        THEN /\ log' = log \o
                  << WsSetRow(i, pixels_to_row_points(row_pixels), RowFmt),
                     InsertOrPlaceholder(i, processed[i].path, Join(images_dir, name),
                                         opts, TRUE),
                     WsWrite(i, 1, tc, RowFmt) >>
             /\ hist' = [hist EXCEPT !.geom = geom]
             /\ i' = i + 1
             /\ pc' = IF i = Len(imgs) THEN "close" ELSE "rows"
        ELSE /\ log' = Append(log, WsSetRow(i, pixels_to_row_points(row_pixels), RowFmt))
             /\ hist' = [hist EXCEPT !.failed = @ \cup {i}]
             /\ i' = i
             /\ pc' = "done"

\* lines 188-244, one iteration; embedOk = FALSE: insert_image raises
RowOne(embedOk) ==
    LET name == imgs[i]
        row == i
        orig_path == Join(images_dir, name)
        sz == RowSize(i)
        tc == Timecode(parse_frame_from_filename(name), args.fps)
        row_pixels == sz.h + 2 * args.pad_y
        opts == CenterOpts(sz.w, sz.h, row_pixels)
    IN  /\ log' = log \o
                  << WsSetRow(row, pixels_to_row_points(row_pixels), RowFmt),
                     InsertOrPlaceholder(row, processed[i].path, orig_path, opts, embedOk),
                     WsWrite(row, 1, tc, RowFmt) >>
        /\ hist' = [hist EXCEPT
                      !.failed = IF embedOk /\ (use_physical \/ get_image_size(name) # None)
                                 THEN @ ELSE @ \cup {i},
                      !.geom = Append(@, [w |-> sz.w, h |-> sz.h,
                                          row_pixels |-> row_pixels])]
        /\ i' = i + 1
        /\ pc' = IF i = Len(imgs) THEN "close" ELSE "rows"

Row ==
    /\ pc = "rows"
    /\ i <= Len(imgs)
    /\ \E embedOk \in BOOLEAN : RowOne(embedOk)
    /\ UNCHANGED <<env, listing, disk, args, imgs, use_physical, tmpdir,
                   processed, colA_pixels, wb, exit, fs, fin, fout>>

\* lines 246-248
Close ==
    /\ pc = "close"
    /\ wb' = "closed"
    /\ fs' = [fs EXCEPT !.outFile = TRUE]
    /\ exit' = Some(0)
    /\ pc' = "finally"
    /\ UNCHANGED <<env, listing, disk, args, imgs, use_physical, tmpdir,
                   processed, colA_pixels, i, log, hist, fin, fout>>

\* lines 249-251: what the finally clause leaves on disk
FinallyClause(f) ==
    IF tmpdir # None /\ f.scratch = "present"
    THEN [f EXCEPT !.scratch = "removed"]
    ELSE f

\* the cleanup placed after the loop instead of in a finally clause
Interrupt_NoFinally ==
    /\ pc \in InTry \cup {"makedirs"}
    /\ pc' = "done"
    /\ exit' = Some(1)
    /\ hist' = [hist EXCEPT !.interrupted = TRUE]
    /\ UNCHANGED <<env, listing, disk, args, imgs, use_physical, tmpdir,
                   processed, colA_pixels, i, wb, log, fs, fin, fout>>

\* An exception no handler catches (OSError from the workbook, KeyboardInterrupt,
\* ...) raised by the statement about to run.  Inside the try block the finally
\* clause runs as the exception propagates; before it the process just dies.
Interrupt ==
    /\ pc \in InTry \cup {"makedirs"}
    /\ fs' = IF pc \in InTry THEN FinallyClause(fs) ELSE fs
    /\ pc' = "done"
    /\ exit' = Some(1)
    /\ hist' = [hist EXCEPT !.interrupted = TRUE]
    /\ UNCHANGED <<env, listing, disk, args, imgs, use_physical, tmpdir,
                   processed, colA_pixels, i, wb, log, fin, fout>>

\* lines 249-251 on the normal path
Finally ==
    /\ pc = "finally"
    /\ fs' = FinallyClause(fs)
    /\ pc' = "done"
    /\ UNCHANGED <<env, listing, disk, args, imgs, use_physical, tmpdir,
                   processed, colA_pixels, i, wb, log, exit, hist, fin, fout>>

Next ==
    \/ ListImages
    \/ MakeDirs
    \/ PrepareTmp
    \/ Preprocess
    \/ Overwrite
    \/ OpenWorkbook
    \/ Row
    \/ Close
    \/ Interrupt
    \/ Finally

Spec == Init /\ [][Next]_vars

----------------------------------------------------------------------------
(* The pure functions on their own: the run is idle, fin holds the input   *)

IdleRun ==
    /\ env = [dirExists |-> FALSE, pil |-> FALSE]
    /\ listing = {}
    /\ disk = <<>>
    /\ args = [resize |-> "physical", scale |-> <<1, 4>>, fps |-> <<0, 1>>,
               pad_x |-> 0, pad_y |-> 0, do_center |-> TRUE]
    /\ imgs = <<>>
    /\ use_physical = FALSE
    /\ tmpdir = None
    /\ processed = <<>>
    /\ colA_pixels = None
    /\ i = 0
    /\ wb = "none"
    /\ log = <<>>
    /\ exit = None
    /\ fs = [outDir |-> FALSE, outFile |-> FALSE, scratch |-> "absent"]
    /\ hist = HistInit(<<>>)

\* frame indices and frame rates the timecode is computed for
FrameSamples ==
    { 0, 1, 10, 24, 25, 749, 750, 1499, 1500, 89999, 90000, 2159999, 2160000,
      9000000, 99999999 }

RateSamples ==
    { <<-1, 1>>, <<0, 1>>, <<1, 4>>, <<1, 2>>, <<1, 1>>, <<24, 1>>, <<25, 1>>,
      <<60, 1>>, <<1000, 1>> }

TimecodeInit ==
    /\ IdleRun
    /\ pc = "timecode"
    /\ fin \in [frame : {None} \cup {Some(n) : n \in FrameSamples}, fps : RateSamples]
    /\ fout = None

\* lines 126, 205-209
TimecodeStep ==
    /\ pc = "timecode"
    /\ fout' = Some(Timecode(fin.frame, FpsArg(fin.fps)))
    /\ pc' = "timecode_done"
    /\ UNCHANGED <<env, listing, disk, args, imgs, use_physical, tmpdir,
                   processed, colA_pixels, i, wb, log, exit, fs, hist, fin>>

SpecTimecode == TimecodeInit /\ [][TimecodeStep]_vars

\* file names: prefix, a digit run, a separator, a second digit run, a suffix
MaxRun == 10

RECURSIVE DigitRun(_, _)
\* k digits counting up from digit d
DigitRun(k, d) ==
    IF k = 0 THEN <<>>
    ELSE <<DigitChar(d % 10)>> \o DigitRun(k - 1, d + 1)

Prefixes == { <<>>, <<"f">>, <<"F">>, <<"x">> }
Separators == { <<>>, <<"_">> }
Suffixes ==
    { <<>>, <<".", "p", "n", "g">>, <<".", "J", "P", "G">>, <<".", "j", "p", "e", "g">>,
      <<".", "t", "x", "t">>, <<".", "p", "n", "g", "\n">> }

ParseNames ==
    { p \o DigitRun(k1, d1) \o sep \o DigitRun(k2, 0) \o suf :
        p \in Prefixes, k1 \in 0..MaxRun, d1 \in {0, 1}, sep \in Separators,
        k2 \in {0, FrameDigits}, suf \in Suffixes }

ParseInit ==
    /\ IdleRun
    /\ pc = "parse"
    /\ fin \in ParseNames
    /\ fout = None

\* lines 51-64
ParseStep ==
    /\ pc = "parse"
    /\ fout' = Some(parse_frame_from_filename(fin))
    /\ pc' = "parse_done"
    /\ UNCHANGED <<env, listing, disk, args, imgs, use_physical, tmpdir,
                   processed, colA_pixels, i, wb, log, exit, fs, hist, fin>>

SpecParse == ParseInit /\ [][ParseStep]_vars

----------------------------------------------------------------------------
(* Claims about the pure functions                                         *)

\* the three fields of a text of the form H..H:MM:SS
TcHours(text) == SubSeq(text, 1, Len(text) - 6)
TcMinutes(text) == SubSeq(text, Len(text) - 4, Len(text) - 3)
TcSeconds(text) == SubSeq(text, Len(text) - 1, Len(text))

TcWellFormed(text) ==
    /\ Len(text) >= 8
    /\ AllDigits(TcHours(text)) /\ AllDigits(TcMinutes(text)) /\ AllDigits(TcSeconds(text))
    /\ text[Len(text) - 5] = ":" /\ text[Len(text) - 2] = ":"
    /\ Len(TcHours(text)) > 2 => TcHours(text)[1] # "0"
    /\ DigitsToInt(TcMinutes(text)) <= 59
    /\ DigitsToInt(TcSeconds(text)) <= 59

TcTotalSeconds(text) ==
    3600 * DigitsToInt(TcHours(text)) + 60 * DigitsToInt(TcMinutes(text))
        + DigitsToInt(TcSeconds(text))

C6_StrictForm(name) ==
    \E ext \in Extensions :
        /\ Len(name) = 9 + Len(ext)
        /\ name[1] \in {"f", "F"}
        /\ \A k \in 2..9 : name[k] \in Digits
        /\ Lower(SubSeq(name, 10, Len(name))) = ext

\* start positions of the runs of exactly 8 digits: 8 digits with no digit
\* directly before or after them
C6_ExactRuns(name) ==
    { k \in 1..(Len(name) - 7) :
        /\ \A j \in k..(k + 7) : name[j] \in Digits
        /\ k = 1 \/ name[k - 1] \notin Digits
        /\ k + 8 > Len(name) \/ name[k + 8] \notin Digits }

\* C6: the parser returns the 8 digits of a name of the strict form; otherwise
\* the value of the first run of exactly 8 digits in the name; and absent when
\* the name has no run of exactly 8 digits.
C6_ParseExactRun ==
    pc = "parse_done" =>
        LET name == fin
            got == fout[1]
        IN  IF C6_StrictForm(name)
            THEN got = Some(DigitsToInt(SubSeq(name, 2, 9)))
            ELSE IF C6_ExactRuns(name) # {}
            THEN LET k == MinOf(C6_ExactRuns(name))
                 IN  got = Some(DigitsToInt(SubSeq(name, k, k + 7)))
            ELSE got = None

----------------------------------------------------------------------------
(* Claims about one run                                                    *)

\* c is the letter l in either case
Letter(c, l, u) == c = l \/ c = u

\* the name ends in .jpg, .jpeg or .png, letters in either case
HasImageExtension(n) ==
    LET L == Len(n)
    IN  \/ /\ L >= 4 /\ n[L - 3] = "."
           /\ \/ Letter(n[L - 2], "j", "J") /\ Letter(n[L - 1], "p", "P") /\ Letter(n[L], "g", "G")
              \/ Letter(n[L - 2], "p", "P") /\ Letter(n[L - 1], "n", "N") /\ Letter(n[L], "g", "G")
        \/ /\ L >= 5 /\ n[L - 4] = "."
           /\ Letter(n[L - 3], "j", "J") /\ Letter(n[L - 2], "p", "P")
           /\ Letter(n[L - 1], "e", "E") /\ Letter(n[L], "g", "G")

\* the directory entries that qualify as images
QualifyingNames == { n \in listing : HasImageExtension(n) }

IsCellCall(c) == c.op \in {"write", "insert_image"}
CellCalls == SelectSeq(log, IsCellCall)

\* the call that filled column A of row r, and the height set for row r
ColumnACall(r) ==
    log[CHOOSE k \in 1..Len(log) : IsCellCall(log[k]) /\ log[k].row = r /\ log[k].col = 0]
RowPoints4(r) ==
    log[CHOOSE k \in 1..Len(log) : log[k].op = "set_row" /\ log[k].row = r].size

\* C1: the header cells are written first, then one row per qualifying file, rows
\* 1..N in ascending name order, column A (the image, or the path placeholder)
\* before column B (the timecode text); no file is skipped or written twice.
C1_RowOrder ==
    LET cells == CellCalls
        N == Len(imgs)
        Q == QualifyingNames
    IN  /\ pc # "start" =>
              /\ {imgs[k] : k \in 1..N} = Q
              /\ N = Cardinality(Q)
              /\ \A a \in 1..(N - 1) : StrLess(imgs[a], imgs[a + 1])
        /\ Len(cells) <= 2 + 2 * N
        /\ \A k \in 1..Len(cells) :
              IF k <= 2
              THEN /\ cells[k].op = "write" /\ cells[k].row = 0 /\ cells[k].col = k - 1
                   /\ cells[k].text = (IF k = 1 THEN HeaderImage ELSE HeaderTimecode)
              ELSE LET r == (k - 1) \div 2
                       c == (k - 1) % 2
                   IN  /\ cells[k].row = r /\ cells[k].col = c
                       /\ IF c = 0
                          THEN \/ /\ cells[k].op = "insert_image"
                                  /\ EndsWith(cells[k].text, <<"/">> \o imgs[r])
                               \/ /\ cells[k].op = "write"
                                  /\ cells[k].text = Join(images_dir, imgs[r])
                          ELSE /\ cells[k].op = "write"
                               /\ cells[k].text = <<>> \/ Len(cells[k].text) >= 8
        /\ exit = Some(0) => Len(cells) = 2 + 2 * N

\* a finished run over B.JPG and a.png, in that order, with a failed image
C1_Witness ==
    /\ exit = Some(0)
    /\ imgs = <<NameB, NameA>>
    /\ hist.failed # {}
    /\ Len(CellCalls) = 6

\* C2: with the directory missing or holding no qualifying file the run ends
\* with status 2, the only run that does, and never makes an output file, a
\* workbook or a scratch directory.
C2_NoImagesNoOutput ==
    LET nothing == ~env.dirExists \/ QualifyingNames = {}
    IN  /\ nothing =>
              /\ pc \in {"start", "done"}
              /\ pc = "done" => exit = Some(2)
              /\ ~fs.outFile /\ wb = "none"
              /\ fs.scratch = "absent" /\ ~hist.scratchMade
        /\ exit = Some(2) => nothing
        /\ exit \in {None, Some(0), Some(1), Some(2)}

\* a run over a directory that exists but holds no image has ended with 2
C2_Witness ==
    /\ pc = "done" /\ exit = Some(2)
    /\ env.dirExists /\ listing # {}

\* what preprocessing records for image k when nothing fails
NoFailRecord(k) ==
    LET c == hist.disk0[imgs[k]]
    IN  IF use_physical
        THEN [path |-> Join(tmp_path, imgs[k]),
              w |-> Max(1, ScaleRound(c.w, args.scale)),
              h |-> Max(1, ScaleRound(c.h, args.scale))]
        ELSE [path |-> Join(images_dir, imgs[k]),
              w |-> ScaleRound(c.w, args.scale), h |-> ScaleRound(c.h, args.scale)]

\* the column width in pixels of the run in which nothing fails
NoFailColumn ==
    LET ws == {NoFailRecord(k).w : k \in 1..Len(imgs)}
    IN  (CHOOSE m \in ws : \A x \in ws : x <= m) + 2 * args.pad_x

\* the w, h row k is laid out with when nothing fails: scale-only reads the
\* file again
NoFailSize(k) ==
    IF use_physical
    THEN [w |-> NoFailRecord(k).w, h |-> NoFailRecord(k).h]
    ELSE [w |-> ScaleRound(disk[imgs[k]].w, args.scale),
          h |-> ScaleRound(disk[imgs[k]].h, args.scale)]

FloorHalf(x) == x \div 2

\* The part of C3 that does not depend on the column: the run completes, a
\* failing row shows the original, a non-failing row has its failure-free
\* record, row height, y offset and inserted file.
C3_Rows ==
    /\ (pc = "done" /\ imgs # <<>> /\ ~hist.interrupted) =>
          /\ exit = Some(0) /\ wb = "closed" /\ fs.outFile
          /\ Len(hist.geom) = Len(imgs)
    /\ \A r \in 1..Len(hist.geom) :
          LET orig == Join(images_dir, imgs[r])
              a == ColumnACall(r)
              g == hist.geom[r]
              c == hist.disk0[imgs[r]]
          IN  IF r \in hist.failed
              THEN /\ a.text = orig
                   /\ (use_physical /\ processed[r].path = orig) =>
                        <<processed[r].w, processed[r].h>> \in {<<c.w, c.h>>, <<0, 0>>}
              ELSE /\ processed[r] = NoFailRecord(r)
                   /\ g.w = NoFailSize(r).w /\ g.h = NoFailSize(r).h
                   /\ RowPoints4(r) = Max(4, 3 * (g.h + 2 * args.pad_y))
                   /\ a.op = "insert_image" /\ a.text = NoFailRecord(r).path
                   /\ a.opts.y_offset =
                        (IF args.do_center THEN Some(Max(0, args.pad_y)) ELSE None)

\* the x offset of every non-failing row is the one centring it in a column
\* col pixels wide
C3_XOffsets(col) ==
    \A r \in 1..Len(hist.geom) :
        r \notin hist.failed =>
            ColumnACall(r).opts.x_offset =
                (IF args.do_center
                 THEN Some(Max(0, FloorHalf(col - hist.geom[r].w)))
                 ELSE None)

C4_ScratchReleased ==
    /\ hist.scratchMade => (args.resize = "physical" /\ env.pil)
    /\ fs.scratch # "absent" => hist.scratchMade
    /\ pc = "done" => fs.scratch # "present"

\* a run that made the scratch directory died of an exception and removed it
C4_Witness ==
    /\ pc = "done" /\ hist.interrupted
    /\ hist.scratchMade /\ fs.scratch = "removed"

\* C7: in scale-only mode, chosen or fallen back to, the width and height every
\* decodable image is laid out with (column, row, offsets) are its pixel size
\* times scale, and it is inserted from its original file with x and y scale = scale.
C7_ScaleOnlyLayout ==
    ~use_physical =>
        \A r \in 1..Len(hist.geom) :
            LET c == disk[imgs[r]]
                a == ColumnACall(r)
            IN  (c.ok /\ imgs[r] \notin hist.overwritten) =>
                  /\ hist.geom[r].w = ScaleRound(c.w, args.scale)
                  /\ hist.geom[r].h = ScaleRound(c.h, args.scale)
                  /\ processed[r].w = ScaleRound(c.w, args.scale)
                  /\ a.op = "insert_image" =>
                        /\ a.text = Join(images_dir, imgs[r])
                        /\ a.opts.x_scale = Some(args.scale)
                        /\ a.opts.y_scale = Some(args.scale)

\* C8: with centring, xOffset = max(0, floor((column - w) / 2)) and
\* yOffset = max(0, floor((rowHeight - h) / 2)): neither is negative, xOffset is
\* 0 for an image as wide as the column, yOffset is the vertical padding when
\* that is not negative.  Without centring no offset is passed.
C8_Offsets ==
    \A k \in 1..Len(log) :
        log[k].op = "insert_image" =>
            LET g == hist.geom[log[k].row]
                col == colA_pixels[1]
                o == log[k].opts
            IN  /\ g.row_pixels = g.h + 2 * args.pad_y
                /\ IF args.do_center
                   THEN /\ o.x_offset = Some(Max(0, FloorHalf(col - g.w)))
                        /\ o.y_offset = Some(Max(0, FloorHalf(g.row_pixels - g.h)))
                        /\ o.x_offset[1] >= 0 /\ o.y_offset[1] >= 0
                        /\ g.w = col => o.x_offset = Some(0)
                        /\ args.pad_y >= 0 => o.y_offset = Some(args.pad_y)
                   ELSE o.x_offset = None /\ o.y_offset = None

\* an image wider than the column by an odd number of pixels was centred
C8_Witness ==
    \E k \in 1..Len(log) :
        /\ log[k].op = "insert_image" /\ args.do_center
        /\ (colA_pixels[1] - hist.geom[log[k].row].w) \in {-1, -3}
        /\ log[k].opts.x_offset = Some(0)

\* C9 as stated: of two rows of a run, the one with the smaller image height
\* gets the strictly smaller row height, for every pair of heights including 0.
C9_StrictlyIncreasing ==
    \A a, b \in 1..Len(hist.geom) :
        hist.geom[a].h < hist.geom[b].h => RowPoints4(a) < RowPoints4(b)

\* C9 amended: the row with the smaller image height never gets the larger row
\* height, and gets the strictly smaller one whenever the other row is at least
\* 2 pixels high with its padding; below that both rows have the minimum, 1 point.
C9_Amended ==
    \A a, b \in 1..Len(hist.geom) :
        hist.geom[a].h < hist.geom[b].h =>
            /\ RowPoints4(a) <= RowPoints4(b)
            /\ hist.geom[b].h + 2 * args.pad_y >= 2 => RowPoints4(a) < RowPoints4(b)
            /\ hist.geom[b].h + 2 * args.pad_y < 2 =>
                  (RowPoints4(a) = 4 /\ RowPoints4(b) = 4)

\* two rows of heights 0 and 2: the first at the minimum, the second above it
C9_Witness ==
    \E a, b \in 1..Len(hist.geom) :
        /\ hist.geom[a].h = 0 /\ hist.geom[b].h = 2 /\ args.pad_y = 0
        /\ RowPoints4(a) = 4 /\ RowPoints4(b) = 6

\* C10: the column width is set once, after all images are sized, to the widest
\* recorded width + 2 * padX, and every row is laid out with the width recorded
\* for it in preprocessing, which therefore fits the column less its padding.
C10_WidthsFixed ==
    /\ Cardinality({k \in 1..Len(log) : log[k].op = "set_column" /\ log[k].col = 0}) <= 1
    /\ colA_pixels # None =>
          /\ Len(processed) = Len(imgs)
          /\ \A k \in 1..Len(processed) : processed[k].w + 2 * args.pad_x <= colA_pixels[1]
          /\ \E k \in 1..Len(processed) : processed[k].w + 2 * args.pad_x = colA_pixels[1]
    /\ \A r \in 1..Len(hist.geom) :
          /\ hist.geom[r].w = processed[r].w
          /\ hist.geom[r].w <= colA_pixels[1] - 2 * args.pad_x

====
